---- MODULE Spec2Model ----
(***************************************************************************)
(* A model of the Mini Graphyte risk engine (src/src/engine.py) and of the *)
(* part of its dashboard (src/app.py) that presents an analysis.           *)
(*                                                                         *)
(* Numbers are fixed point: posterior probabilities are per-mille          *)
(* (0..1000), stored confidences are hundredths (0..100), natural          *)
(* logarithms are millionths.  Text is a sequence of one-character         *)
(* strings.                                                                *)
(***************************************************************************)
EXTENDS Integers, Sequences, FiniteSets, TLC

VARIABLES
    disk,         \* the persisted artifacts: [model, vectorizer]
    corpus,       \* data/training_data.csv: "absent" or a corpus id
    pc,           \* per caller: where its MiniGraphyteEngine() call stands
    engine,       \* per caller: the engine object under construction / built
    web,          \* what the retrieval collaborator answers to the next query
    result,       \* what the last analyze_entity call did and returned
    explanation,  \* what the last explain_prediction call returned
    app,          \* what the last dashboard run presented
    norm,         \* normalize_name: input, first and second application
    scoring       \* calculate_risk_score: evidence list and score

vars == <<disk, corpus, pc, engine, web, result, explanation, app, norm, scoring>>

engineVars == <<disk, corpus, pc, engine>>
callVars == <<web, result, explanation, app>>

-----------------------------------------------------------------------------
(* Bounds of the model *)

MaxPieces == 3      \* pieces an input name is assembled from
MaxRuns == 2        \* runs of equal items in an evidence list (scoring)
MaxArticles == 3    \* articles a retrieval returns in the analysis model

(* Program constants *)

Limit == 10             \* fetch_live_news(entity_name, limit=10)
NeutralThreshold == 550 \* if confidence < 0.55, per-mille
TopK == 4               \* contributions.argsort()[::-1][:4]

-----------------------------------------------------------------------------
(* Sequence helpers *)

RECURSIVE SeqSum(_)
SeqSum(s) == IF s = <<>> THEN 0 ELSE Head(s) + SeqSum(Tail(s))

Min(a, b) == IF a < b THEN a ELSE b

Repeat(x, k) == [i \in 1..k |-> x]

EndsWith(s, suf) ==
    /\ Len(suf) <= Len(s)
    /\ SubSeq(s, Len(s) - Len(suf) + 1, Len(s)) = suf

-----------------------------------------------------------------------------
(* normalize_name *)

UpperCase == {"A", "C", "G"}
LowerCase == {"a", "c", "d", "e", "g", "h", "i", "l", "m", "n", "o", "p",
              "r", "s", "t", "u"}
Digits == {"1"}
WhiteSpace == {" "}

\* str.lower() on one character
LowerChar(ch) ==
    CASE ch = "A" -> "a"
      [] ch = "C" -> "c"
      [] ch = "G" -> "g"
      [] OTHER -> ch

Lower(s) == [i \in 1..Len(s) |-> LowerChar(s[i])]

\* \w of the regular expression: letters, digits and the underscore
IsWordChar(ch) == ch \in LowerCase \cup UpperCase \cup Digits \cup {"_"}

\* \s of the regular expression
IsSpaceChar(ch) == ch \in WhiteSpace

\* re.sub(r'[^\w\s]', '', name)
RECURSIVE RemoveSymbols(_)
RemoveSymbols(s) ==
    IF s = <<>> THEN <<>>
    ELSE IF IsWordChar(Head(s)) \/ IsSpaceChar(Head(s))
         THEN <<Head(s)>> \o RemoveSymbols(Tail(s))
         ELSE RemoveSymbols(Tail(s))

suffixes ==
    << <<" ", "l", "t", "d">>,
       <<" ", "l", "l", "c">>,
       <<" ", "i", "n", "c">>,
       <<" ", "c", "o", "r", "p">>,
       <<" ", "l", "i", "m", "i", "t", "e", "d">>,
       <<" ", "h", "o", "l", "d", "i", "n", "g", "s">>,
       <<" ", "g", "r", "o", "u", "p">> >>

\* name[:len(name)-len(suffix)]
DropSuffix(s, suf) == SubSeq(s, 1, Len(s) - Len(suf))

\* Variant: the loop leaves after the first suffix it removes (a break)
RECURSIVE StripSuffixesBreak(_, _)
StripSuffixesBreak(s, i) ==
    IF i > Len(suffixes) THEN s
    ELSE IF EndsWith(s, suffixes[i])
         THEN DropSuffix(s, suffixes[i])
         ELSE StripSuffixesBreak(s, i + 1)

\* for suffix in suffixes: if name.endswith(suffix): name = name[:...]
\* (the loop from list position i on; it does not leave after a removal)
RECURSIVE StripSuffixes(_, _)
StripSuffixes(s, i) ==
    IF i > Len(suffixes) THEN s
    ELSE IF EndsWith(s, suffixes[i])
         THEN StripSuffixes(DropSuffix(s, suffixes[i]), i + 1)
         ELSE StripSuffixes(s, i + 1)

\* str.strip(): leading and trailing whitespace removed
RECURSIVE LStrip(_)
LStrip(s) ==
    IF s # <<>> /\ IsSpaceChar(Head(s)) THEN LStrip(Tail(s)) ELSE s

RECURSIVE RStrip(_)
RStrip(s) ==
    IF s # <<>> /\ IsSpaceChar(s[Len(s)])
    THEN RStrip(SubSeq(s, 1, Len(s) - 1))
    ELSE s

Strip(s) == RStrip(LStrip(s))

\* the name after lower() and re.sub(), before the suffix loop
CleanName(name) == RemoveSymbols(Lower(name))

normalize_name(name) == Strip(StripSuffixes(CleanName(name), 1))

\* The pieces input names are assembled from
Pieces ==
    { <<"A", "c", "m", "e">>,
      <<"a", "c", "m", "e">>,
      <<" ">>, <<".">>, <<"_">>, <<"&">>,
      <<" ", "l", "t", "d">>,
      <<" ", "C", "o", "r", "p">>,
      <<" ", "G", "r", "o", "u", "p">>,
      <<" ", "h", "o", "l", "d", "i", "n", "g", "s">> }

NormInit == norm = [pieces |-> 0, name |-> <<>>, stage |-> 0,
                    once |-> <<>>, twice |-> <<>>]

\* the caller types one more piece of the name
NormAppend ==
    /\ norm.stage = 0
    /\ norm.pieces < MaxPieces
    /\ \E p \in Pieces :
          norm' = [norm EXCEPT !.pieces = @ + 1, !.name = @ \o p]
    /\ UNCHANGED <<engineVars, callVars, scoring>>

\* normalize_name(name)
NormApply ==
    /\ norm.stage = 0
    /\ norm' = [norm EXCEPT !.stage = 1, !.once = normalize_name(norm.name)]
    /\ UNCHANGED <<engineVars, callVars, scoring>>

\* normalize_name applied to its own result
NormReapply ==
    /\ norm.stage = 1
    /\ norm' = [norm EXCEPT !.stage = 2, !.twice = normalize_name(norm.once)]
    /\ UNCHANGED <<engineVars, callVars, scoring>>

-----------------------------------------------------------------------------
(* calculate_risk_score *)

TYPOLOGIES == {"sanctions", "fraud", "money_laundering", "corruption",
               "human_trafficking", "financial_distress", "neutral"}

\* floor(ln(k) * 10^6), the values np.log(count + 1) takes for count <= 11;
\* from count = 12 on ln(count + 1) / 2.5 exceeds 1.0
LnMicro(k) ==
    CASE k = 2 -> 693147
      [] k = 3 -> 1098612
      [] k = 4 -> 1386294
      [] k = 5 -> 1609437
      [] k = 6 -> 1791759
      [] k = 7 -> 1945910
      [] k = 8 -> 2079441
      [] k = 9 -> 2197224
      [] k = 10 -> 2302585
      [] k = 11 -> 2397895
      [] k = 12 -> 2484906
      [] OTHER -> 2564949

Micro == 1000 * 1000

\* [e for e in evidence if e['predicted_risk'] != 'neutral']
risk_articles(evidence) ==
    SelectSeq(evidence, LAMBDA e : e.predicted_risk # "neutral")

Confidences(items) == [i \in 1..Len(items) |-> items[i].confidence]

\* Variant: np.log(count) instead of np.log(count + 1)
volume_score_NoPlusOne(count) ==
    IF count = 1 THEN 0 ELSE Min((LnMicro(count) * 2) \div 5, Micro)

\* min(np.log(count + 1) / 2.5, 1.0), in millionths
volume_score(count) == Min((LnMicro(count + 1) * 2) \div 5, Micro)

\* calculate_risk_score(evidence): confidences are hundredths.
\* raw_score * 100 = avg_conf * 50 + volume_score * 30 + 0.8 * 20; to keep
\* the mean exact it is computed times count, in millionths (raw100n), and
\* int(min(raw_score * 100, 100)) is the floor of the quotient.
calculate_risk_score(evidence) ==
    IF evidence = <<>> THEN 0
    ELSE IF risk_articles(evidence) = <<>> THEN 0
    ELSE LET count == Len(risk_articles(evidence))
             raw100n == SeqSum(Confidences(risk_articles(evidence))) * 500000
                        + count * (30 * volume_score(count) + 16 * Micro)
         IN  Min(raw100n \div (count * Micro), 100)

\* The items evidence lists are assembled from (scoring model)
ScoreItems ==
    [predicted_risk : {"fraud", "neutral"}, confidence : {0, 55, 60, 95, 100}]

ScoreInit == scoring = [runs |-> 0, evidence |-> <<>>, done |-> FALSE,
                        score |-> 0]

\* the caller appends k equal items to the evidence list
ScoreAddRun ==
    /\ ~scoring.done
    /\ scoring.runs < MaxRuns
    /\ \E e \in ScoreItems, k \in 1..Limit :
          /\ Len(scoring.evidence) + k <= Limit
          /\ scoring' = [scoring EXCEPT !.runs = @ + 1,
                                        !.evidence = @ \o Repeat(e, k)]
    /\ UNCHANGED <<engineVars, callVars, norm>>

\* calculate_risk_score(evidence)
ScoreApply ==
    /\ ~scoring.done
    /\ scoring' = [scoring EXCEPT
                      !.done = TRUE,
                      !.score = calculate_risk_score(scoring.evidence)]
    /\ UNCHANGED <<engineVars, callVars, norm>>

-----------------------------------------------------------------------------
(* fetch_live_news and analyze_entity *)

\* What the classifier returns for an article: the arg-max class of
\* model.predict and np.max of model.predict_proba, per-mille.  The other
\* fields of an article (headline, snippet, source, date, url) are copied
\* to the evidence item unread and are left out.
RawProbs == {549, 550, 556, 950}
PredLabels == {"fraud", "sanctions", "neutral"}
Articles == [pred : PredLabels, prob : RawProbs]

\* What the retrieval collaborator does for a query: it raises (kind
\* "error"), or it returns the articles it holds, at most `limit` of them
NoWeb == [kind |-> "ok", items |-> <<>>]

\* Variant: the exception of the collaborator is not caught
fetch_live_news_Uncaught(outcome) ==
    IF outcome.kind = "error"
    THEN [raised |-> "Exception", results |-> <<>>]
    ELSE [raised |-> "none", results |-> outcome.items]

\* fetch_live_news: try ... except Exception: return []
fetch_live_news(outcome) ==
    IF outcome.kind = "error"
    THEN [raised |-> "none", results |-> <<>>]
    ELSE [raised |-> "none", results |-> outcome.items]

\* Variant: truncation to two decimals
Round2_Truncate(prob) == prob \div 10

\* round(confidence, 2): per-mille to hundredths, to nearest, a tie to even
Round2(prob) ==
    LET q == prob \div 10
        r == prob % 10
    IN  IF r < 5 THEN q
        ELSE IF r > 5 THEN q + 1
        ELSE IF q % 2 = 0 THEN q ELSE q + 1

\* Variant: the arg-max label is kept whatever the confidence
override_label_Kept(pred_label, confidence) == pred_label

\* Variant: confidence <= 0.55
override_label_Inclusive(pred_label, confidence) ==
    IF confidence <= NeutralThreshold THEN "neutral" ELSE pred_label

\* if confidence < 0.55: pred_label = 'neutral'
override_label(pred_label, confidence) ==
    IF confidence < NeutralThreshold THEN "neutral" ELSE pred_label

\* the evidence_item built in the loop body
evidence_item(article) ==
    [predicted_risk |-> override_label(article.pred, article.prob),
     confidence |-> Round2(article.prob)]

\* typology_counts[pred_label] = typology_counts.get(pred_label, 0) + 1 on
\* a dict, which keeps its keys in the order of their first insertion
CountLabel(counts, label) ==
    IF \E i \in 1..Len(counts) : counts[i].label = label
    THEN [i \in 1..Len(counts) |->
             IF counts[i].label = label
             THEN [counts[i] EXCEPT !.count = @ + 1]
             ELSE counts[i]]
    ELSE Append(counts, [label |-> label, count |-> 1])

RECURSIVE typology_counts(_)
typology_counts(evidence) ==
    IF evidence = <<>> THEN <<>>
    ELSE LET before == typology_counts(SubSeq(evidence, 1, Len(evidence) - 1))
             last == evidence[Len(evidence)]
         IN  IF last.predicted_risk # "neutral"
             THEN CountLabel(before, last.predicted_risk)
             ELSE before

\* Variant: an item goes in front of the items with an equal count
InsertDesc_Unstable(sorted, x) ==
    LET k == Cardinality({i \in 1..Len(sorted) : sorted[i].count > x.count})
    IN  SubSeq(sorted, 1, k) \o <<x>> \o SubSeq(sorted, k + 1, Len(sorted))

\* one insertion of the stable descending sort: x goes behind every item
\* whose count is at least its own
InsertDesc(sorted, x) ==
    LET k == Cardinality({i \in 1..Len(sorted) : sorted[i].count >= x.count})
    IN  SubSeq(sorted, 1, k) \o <<x>> \o SubSeq(sorted, k + 1, Len(sorted))

\* sorted(typology_counts.items(), key=lambda x: x[1], reverse=True)
RECURSIVE sorted_typologies(_)
sorted_typologies(counts) ==
    IF counts = <<>> THEN <<>>
    ELSE InsertDesc(sorted_typologies(SubSeq(counts, 1, Len(counts) - 1)),
                    counts[Len(counts)])

top_typologies(evidence) ==
    LET st == sorted_typologies(typology_counts(evidence))
    IN  [i \in 1..Len(st) |-> st[i].label]

NoCall == [called |-> FALSE, raw_articles |-> <<>>, classified |-> FALSE,
           raised |-> "none", returns |-> "nothing", risk_score |-> 0,
           top_typologies |-> <<>>, evidence |-> <<>>,
           summary |-> "none"]

\* analyze_entity(entity_name), given what the retrieval does for the query
analyze_entity(outcome) ==
    LET fetched == fetch_live_news(outcome)
        raw == fetched.results
        ev == [i \in 1..Len(raw) |-> evidence_item(raw[i])]
    IN  IF fetched.raised # "none"
        THEN [NoCall EXCEPT !.called = TRUE, !.raised = fetched.raised]
        ELSE IF raw = <<>>
        THEN [NoCall EXCEPT !.called = TRUE, !.returns = "dict",
                            !.summary = "No recent news found."]
        ELSE [called |-> TRUE, raw_articles |-> raw, classified |-> TRUE,
              raised |-> "none", returns |-> "dict",
              risk_score |-> calculate_risk_score(ev),
              top_typologies |-> top_typologies(ev),
              evidence |-> ev, summary |-> "Analyzed articles"]

-----------------------------------------------------------------------------
(* The ClassifierState: the fitted model and vectorizer *)

Callers == {"c1", "c2"}
CorpusIds == {"A", "B"}

\* An artifact, in memory or in its file: the parameters fitted on a corpus
\* by one run of train_model ("old": a run before the modelled ones)
NoArtifact == [state |-> "absent", corpus |-> "none", run |-> "none"]
Corrupt == [state |-> "corrupt", corpus |-> "none", run |-> "none"]
Fitted(k, run) == [state |-> "ok", corpus |-> k, run |-> run]

\* vectorizer.get_feature_names_out(): the vocabulary, in index order
feature_names == <<"bribery", "earnings", "embargo", "fraud", "ofac", "ponzi">>

\* model.classes_: the labels of the corpus the model was fitted on, sorted
classes_(m) ==
    IF m.corpus = "A"
    THEN <<"corruption", "financial_distress", "fraud", "human_trafficking",
           "money_laundering", "neutral", "sanctions">>
    ELSE <<"fraud", "neutral", "sanctions">>

\* model.coef_[class_idx], in hundredths, one entry per feature
coef_(m, class_idx) ==
    LET cls == classes_(m)[class_idx]
        shift == IF m.corpus = "A" THEN 0 ELSE 10
    IN  CASE cls = "sanctions" -> <<-20, -50, 120 + shift, -10, 150, -10>>
          [] cls = "fraud" -> <<-10, -40, -15, 130 - shift, -20, 140>>
          [] cls = "corruption" -> <<160, -30, 10, 20, 15, 5>>
          [] cls = "neutral" -> <<-60, 200, -50, -70, -60, -60>>
          [] OTHER -> <<-10, -10, -10, -10, -10, -10>>

\* vectorizer.transform([text_snippet]).toarray()[0], in hundredths
Snippets == {"ofac embargo", "ponzi fraud", "all terms", "no known term"}

tfidf_vector(v, snippet) ==
    CASE snippet = "ofac embargo" -> <<0, 0, 70, 0, 71, 0>>
      [] snippet = "ponzi fraud" -> <<0, 0, 0, 60, 0, 80>>
      [] snippet = "all terms" -> <<40, 41, 40, 41, 40, 41>>
      [] OTHER -> <<0, 0, 0, 0, 0, 0>>

\* list.index(x): the first position of x, 0 when absent (a ValueError)
IndexOf(seq, x) ==
    IF \E i \in 1..Len(seq) : seq[i] = x
    THEN CHOOSE i \in 1..Len(seq) :
            seq[i] = x /\ \A j \in 1..(i - 1) : seq[j] # x
    ELSE 0

\* contributions.argsort()[::-1]: the indices by ascending value, equal
\* values by ascending index, and that order reversed
argsort_reversed(values) ==
    LET n == Len(values)
        Before(j, i) == values[j] > values[i] \/ (values[j] = values[i] /\ j > i)
        Rank(i) == Cardinality({j \in 1..n : Before(j, i)}) + 1
    IN  [r \in 1..n |-> CHOOSE i \in 1..n : Rank(i) = r]

NoExplain == [called |-> FALSE, text_snippet |-> "none",
              predicted_class |-> "none", raised |-> "none",
              explanations |-> <<>>]

\* Variant: contributions[idx] >= 0
keep_positive_OrZero(top_indices, contributions) ==
    SelectSeq(top_indices, LAMBDA i : contributions[i] >= 0)

\* for idx in top_indices: if contributions[idx] > 0: explanations.append
keep_positive(top_indices, contributions) ==
    SelectSeq(top_indices, LAMBDA i : contributions[i] > 0)

\* explain_prediction(text_snippet, predicted_class) on engine e.  An entry
\* of the returned list is the text "<token> (+<contribution, 2 decimals>)";
\* it is kept as the token and the contribution it is formatted from.
explain_prediction(e, text_snippet, predicted_class) ==
    LET call == [NoExplain EXCEPT !.called = TRUE,
                                  !.text_snippet = text_snippet,
                                  !.predicted_class = predicted_class]
    IN
    IF predicted_class = "neutral"
    THEN call
    ELSE LET class_idx == IndexOf(classes_(e.model), predicted_class)
         IN  IF class_idx = 0
             THEN [call EXCEPT !.raised = "ValueError"]
             ELSE LET coefs == coef_(e.model, class_idx)
                      tfidf == tfidf_vector(e.vectorizer, text_snippet)
                      contributions ==
                          [i \in 1..Len(coefs) |-> coefs[i] * tfidf[i]]
                      order == argsort_reversed(contributions)
                      top_indices == SubSeq(order, 1, Min(TopK, Len(order)))
                      positive == keep_positive(top_indices, contributions)
                  IN  [call EXCEPT
                          !.explanations =
                             [r \in 1..Len(positive) |->
                                 [token |-> feature_names[positive[r]],
                                  contribution |-> contributions[positive[r]]]]]

-----------------------------------------------------------------------------
(* MiniGraphyteEngine.__init__ and train_model, one step per file access *)

NewEngine == [state |-> "Untrained", model |-> NoArtifact,
              vectorizer |-> NoArtifact, error |-> "none",
              loaded |-> {}, trained |-> FALSE, wrote |-> {}]

\* joblib.load(path): the artifact in the file, or an exception
Loads(file) == file.state = "ok"

\* self.model = joblib.load(self.model_path)
LoadModel(c) ==
    /\ pc[c] = "load_model"
    /\ IF Loads(disk.model)
       THEN /\ engine' = [engine EXCEPT ![c].model = disk.model,
                                        ![c].loaded = @ \cup {"model"}]
            /\ pc' = [pc EXCEPT ![c] = "load_vectorizer"]
       ELSE /\ engine' = engine
            /\ pc' = [pc EXCEPT ![c] = "train"]
    /\ UNCHANGED <<disk, corpus, callVars, norm, scoring>>

\* Variant: a vectorizer that does not load is passed over (except: pass)
LoadVectorizer_Lenient(c) ==
    /\ pc[c] = "load_vectorizer"
    /\ engine' = [engine EXCEPT
                     ![c].vectorizer = disk.vectorizer,
                     ![c].loaded = IF disk.vectorizer.state = "ok"
                                   THEN @ \cup {"vectorizer"} ELSE @,
                     ![c].state = "Trained"]
    /\ pc' = [pc EXCEPT ![c] = "ready"]
    /\ UNCHANGED <<disk, corpus, callVars, norm, scoring>>

\* self.vectorizer = joblib.load(self.vectorizer_path); __init__ returns
LoadVectorizer(c) ==
    /\ pc[c] = "load_vectorizer"
    /\ IF Loads(disk.vectorizer)
       THEN /\ engine' = [engine EXCEPT ![c].vectorizer = disk.vectorizer,
                                        ![c].loaded = @ \cup {"vectorizer"},
                                        ![c].state = "Trained"]
            /\ pc' = [pc EXCEPT ![c] = "ready"]
       ELSE /\ engine' = engine
            /\ pc' = [pc EXCEPT ![c] = "train"]
    /\ UNCHANGED <<disk, corpus, callVars, norm, scoring>>

\* train_model up to model.fit: the corpus is looked for, read and fitted
TrainFit(c) ==
    /\ pc[c] = "train"
    /\ IF corpus = "absent"
       THEN /\ engine' = [engine EXCEPT ![c].state = "Failed",
                                        ![c].error = "FileNotFoundError"]
            /\ pc' = [pc EXCEPT ![c] = "failed"]
       ELSE /\ engine' = [engine EXCEPT ![c].vectorizer = Fitted(corpus, c),
                                        ![c].model = Fitted(corpus, c),
                                        ![c].trained = TRUE]
            /\ pc' = [pc EXCEPT ![c] = "dump_model"]
    /\ UNCHANGED <<disk, corpus, callVars, norm, scoring>>

\* joblib.dump(self.model, self.model_path)
DumpModel(c) ==
    /\ pc[c] = "dump_model"
    /\ disk' = [disk EXCEPT !.model = engine[c].model]
    /\ engine' = [engine EXCEPT ![c].wrote = @ \cup {"model"}]
    /\ pc' = [pc EXCEPT ![c] = "dump_vectorizer"]
    /\ UNCHANGED <<corpus, callVars, norm, scoring>>

\* joblib.dump(self.vectorizer, self.vectorizer_path); __init__ returns
DumpVectorizer(c) ==
    /\ pc[c] = "dump_vectorizer"
    /\ disk' = [disk EXCEPT !.vectorizer = engine[c].vectorizer]
    /\ engine' = [engine EXCEPT ![c].wrote = @ \cup {"vectorizer"},
                                ![c].state = "Trained"]
    /\ pc' = [pc EXCEPT ![c] = "ready"]
    /\ UNCHANGED <<corpus, callVars, norm, scoring>>

-----------------------------------------------------------------------------
(* Calls on a built engine.  One call is observed at a time: result,       *)
(* explanation and app hold the outcome of the latest call.                *)

NoApp == [ran |-> FALSE, analyze_btn |-> FALSE, entity_query |-> FALSE,
          min_confidence |-> 50, filter_typologies |-> {},
          shown |-> {}, cards |-> 0, raised |-> "none"]

Quiet == result = NoCall /\ explanation = NoExplain /\ app = NoApp

\* the collaborator comes to hold one more article for the next query
WebPublish(n, arts) ==
    /\ Quiet
    /\ web.kind = "ok"
    /\ Len(web.items) < Min(n, Limit)
    /\ \E a \in arts : web' = [web EXCEPT !.items = Append(@, a)]
    /\ UNCHANGED <<engineVars, result, explanation, app, norm, scoring>>

\* Articles whose maximum posterior spans what predict_proba can give over
\* seven classes: from just above 1/7 to 1
RunArticles == [pred : {"fraud", "neutral"}, prob : {143, 549, 550, 1000}]

\* the number of runs of equal consecutive articles in a result list
RunCount(items) ==
    Cardinality({i \in 1..Len(items) : i = 1 \/ items[i] # items[i - 1]})

\* the collaborator comes to hold k more equal articles for the next query;
\* news(max_results=limit) answers with at most `limit` of them
WebPublishRun ==
    /\ Quiet
    /\ web.kind = "ok"
    /\ \E a \in RunArticles, k \in 1..Limit :
          /\ Len(web.items) + k <= Limit
          /\ RunCount(web.items \o Repeat(a, k)) <= MaxRuns
          /\ web' = [web EXCEPT !.items = @ \o Repeat(a, k)]
    /\ UNCHANGED <<engineVars, result, explanation, app, norm, scoring>>

\* the collaborator becomes unreachable: the next query raises
WebFail ==
    /\ Quiet
    /\ web.kind = "ok"
    /\ web' = [kind |-> "error", items |-> <<>>]
    /\ UNCHANGED <<engineVars, result, explanation, app, norm, scoring>>

\* Variant: analyze_entity refits and saves the model on every call
Analyze_Retrain(c) ==
    /\ pc[c] = "ready"
    /\ Quiet
    /\ corpus # "absent"
    /\ result' = analyze_entity(web)
    /\ engine' = [engine EXCEPT ![c].model = Fitted(corpus, c),
                                ![c].vectorizer = Fitted(corpus, c)]
    /\ disk' = [model |-> Fitted(corpus, c), vectorizer |-> Fitted(corpus, c)]
    /\ UNCHANGED <<corpus, pc, web, explanation, app, norm, scoring>>

\* engine.analyze_entity(entity_name) by caller c: the answer of the
\* collaborator is read; no attribute of self and no file is assigned
Analyze(c) ==
    /\ pc[c] = "ready"
    /\ Quiet
    /\ result' = analyze_entity(web)
    /\ UNCHANGED <<engineVars, web, explanation, app, norm, scoring>>

\* engine.explain_prediction(text_snippet, predicted_class) by caller c
Explain(c) ==
    /\ pc[c] = "ready"
    /\ Quiet
    /\ \E s \in Snippets, cls \in {"neutral", "sanctions", "fraud", "corruption"} :
          explanation' = explain_prediction(engine[c], s, cls)
    /\ UNCHANGED <<engineVars, web, result, app, norm, scoring>>

\* the outcome has been looked at; the next query is a new one
NextCall ==
    /\ ~Quiet
    /\ web' = NoWeb
    /\ result' = NoCall
    /\ explanation' = NoExplain
    /\ app' = NoApp
    /\ UNCHANGED <<engineVars, norm, scoring>>

-----------------------------------------------------------------------------
(* The dashboard script (app.py) from `if analyze_btn and entity_query` on *)

MsgNoAdverseMedia == "No adverse media found"
MsgNoEvidenceMeetsFilters == "No evidence meets current filters."
MsgEnterName == "Please enter an entity name."

\* [e for e in result['evidence'] if e['confidence'] >= min_confidence],
\* then, if filter_typologies, those with predicted_risk in it
filtered_evidence(evidence, min_confidence, filter_typologies) ==
    LET byConf == SelectSeq(evidence, LAMBDA e : e.confidence >= min_confidence)
    IN  IF filter_typologies # {}
        THEN SelectSeq(byConf, LAMBDA e : e.predicted_risk \in filter_typologies)
        ELSE byConf

\* `not result`: None is falsy, the dict analyze_entity builds is not
Falsy(res) == res.returns = "None"

\* the methods the class MiniGraphyteEngine defines: the statements that
\* follow the return of analyze_entity (report, cm, classes_) are part of
\* its body and define no method
engine_methods ==
    {"__init__", "normalize_name", "train_model", "fetch_live_news",
     "calculate_risk_score", "analyze_entity", "explain_prediction"}

\* engine.<name>(): attribute lookup on the engine
lookup_method(name) ==
    IF name \in engine_methods THEN "none" ELSE "AttributeError"

\* What one run of the script presents.  The audit cards call
\* explain_prediction with labels the model itself predicted; tab 3 calls
\* engine.get_model_performance(), which the engine does not define.
app_page(res, analyze_btn, entity_query, min_confidence, filter_typologies) ==
    LET page == [NoApp EXCEPT !.ran = TRUE, !.analyze_btn = analyze_btn,
                              !.entity_query = entity_query,
                              !.min_confidence = min_confidence,
                              !.filter_typologies = filter_typologies]
        filtered == filtered_evidence(res.evidence, min_confidence,
                                      filter_typologies)
    IN  IF analyze_btn /\ entity_query
        THEN IF res.raised # "none"
             THEN [page EXCEPT !.raised = res.raised]
             ELSE IF Falsy(res)
             THEN [page EXCEPT !.shown = {MsgNoAdverseMedia}]
             ELSE [page EXCEPT
                      !.shown = IF filtered = <<>>
                                THEN {MsgNoEvidenceMeetsFilters} ELSE {},
                      !.cards = Len(filtered),
                      !.raised = lookup_method("get_model_performance")]
        ELSE IF analyze_btn
        THEN [page EXCEPT !.shown = {MsgEnterName}]
        ELSE page

\* one run of the script by caller c, whose engine is built (a run that
\* sends no query is taken while the collaborator holds nothing)
AppRun(c) ==
    /\ pc[c] = "ready"
    /\ Quiet
    /\ \E analyze_btn \in BOOLEAN, entity_query \in BOOLEAN,
          min_confidence \in {50, 100},
          filter_typologies \in {{}, {"sanctions"}} :
          /\ (analyze_btn /\ entity_query) \/ web = NoWeb
          /\ result' = IF analyze_btn /\ entity_query
                       THEN analyze_entity(web) ELSE NoCall
          /\ app' = app_page(result', analyze_btn, entity_query,
                             min_confidence, filter_typologies)
    /\ UNCHANGED <<engineVars, web, explanation, norm, scoring>>

-----------------------------------------------------------------------------
(* Specifications *)

CallsInit ==
    /\ web = NoWeb
    /\ result = NoCall
    /\ explanation = NoExplain
    /\ app = NoApp

\* every caller holds an engine that loaded the persisted pair
BuiltInit ==
    \E k \in CorpusIds :
        /\ disk = [model |-> Fitted(k, "old"), vectorizer |-> Fitted(k, "old")]
        /\ corpus = k
        /\ pc = [c \in Callers |-> "ready"]
        /\ engine = [c \in Callers |->
                        [NewEngine EXCEPT !.state = "Trained",
                                          !.model = Fitted(k, "old"),
                                          !.vectorizer = Fitted(k, "old"),
                                          !.loaded = {"model", "vectorizer"}]]

\* Analysis on built engines
Init == BuiltInit /\ CallsInit /\ NormInit /\ ScoreInit

Next ==
    \/ WebPublish(MaxArticles, Articles)
    \/ WebFail
    \/ \E c \in Callers : Analyze(c)
    \/ \E c \in Callers : Explain(c)
    \/ \E c \in Callers : AppRun(c)
    \/ NextCall

Spec == Init /\ [][Next]_vars

\* Construction of the engines, by two callers, from any persisted state
Files == {NoArtifact, Corrupt} \cup {Fitted(k, "old") : k \in CorpusIds}

InitLifecycle ==
    /\ disk \in [model : Files, vectorizer : Files]
    /\ corpus \in {"absent"} \cup CorpusIds
    /\ pc = [c \in Callers |-> "load_model"]
    /\ engine = [c \in Callers |-> NewEngine]
    /\ CallsInit /\ NormInit /\ ScoreInit

LifecycleArticles == {[pred |-> "fraud", prob |-> 950]}

NextLifecycle ==
    \/ \E c \in Callers : LoadModel(c)
    \/ \E c \in Callers : LoadVectorizer(c)
    \/ \E c \in Callers : TrainFit(c)
    \/ \E c \in Callers : DumpModel(c)
    \/ \E c \in Callers : DumpVectorizer(c)
    \/ WebPublish(1, LifecycleArticles)
    \/ WebFail
    \/ \E c \in Callers : Analyze(c)
    \/ \E c \in Callers : Explain(c)
    \/ NextCall

SpecLifecycle == InitLifecycle /\ [][NextLifecycle]_vars

\* Analysis of result lists of up to `limit` articles
NextRuns ==
    \/ WebPublishRun
    \/ WebFail
    \/ \E c \in Callers : Analyze(c)
    \/ NextCall

SpecRuns == Init /\ [][NextRuns]_vars

\* normalize_name as a function of its input
NextNorm == NormAppend \/ NormApply \/ NormReapply

SpecNorm == Init /\ [][NextNorm]_vars

\* calculate_risk_score as a function of its input
NextScore == ScoreAddRun \/ ScoreApply

SpecScore == Init /\ [][NextScore]_vars

-----------------------------------------------------------------------------
(* Properties *)

Acme == <<"a", "c", "m", "e">>

\* C1: in analyze_entity, an article whose raw maximum posterior is below
\* 0.55 gets predicted_risk = neutral whatever the arg-max label is, and an
\* article at 0.55 or more keeps the arg-max label.
C1_NeutralOverride ==
    result.classified =>
        /\ Len(result.evidence) = Len(result.raw_articles)
        /\ \A i \in 1..Len(result.raw_articles) :
              LET a == result.raw_articles[i]
                  e == result.evidence[i]
              IN  /\ a.prob < 550 => e.predicted_risk = "neutral"
                  /\ a.prob >= 550 => e.predicted_risk = a.pred

C1_Witness ==
    /\ result.classified
    /\ \E i, j \in 1..Len(result.raw_articles) :
          /\ result.raw_articles[i].prob = 549
          /\ result.raw_articles[i].pred = "fraud"
          /\ result.evidence[i].predicted_risk = "neutral"
          /\ result.raw_articles[j].prob = 550
          /\ result.evidence[j].predicted_risk = "sanctions"

\* C2: calculate_risk_score returns 0 for an empty or all-neutral list, and
\* otherwise floor(min(raw * 100, 100)) with raw = avg_confidence * 0.5 +
\* volume_score * 0.3 + 0.8 * 0.2 over the n non-neutral items, where
\* volume_score = min(ln(n + 1) / 2.5, 1.0); ten items at 0.95 score 92.
NonNeutral(ev) == {i \in 1..Len(ev) : ev[i].predicted_risk # "neutral"}

RECURSIVE SumConfidence(_, _)
SumConfidence(ev, I) ==
    IF I = {} THEN 0
    ELSE LET i == CHOOSE x \in I : TRUE
         IN  ev[i].confidence + SumConfidence(ev, I \ {i})

C3_NotFound ==
    result.called /\ (web.kind = "error" \/ web.items = <<>>) =>
        /\ result.raised = "none"
        /\ result.returns = "dict"
        /\ result.risk_score = 0
        /\ result.evidence = <<>>
        /\ result.top_typologies = <<>>
        /\ ~result.classified

C3_Witness ==
    /\ result.called
    /\ web.kind = "error"
    /\ result.returns = "dict"
    /\ result.risk_score = 0

\* C4: top_typologies lists exactly the distinct non-neutral typologies of
\* the evidence, by descending number of items, equal numbers in the order
\* of first occurrence in the evidence.
Occurrences(ev, t) == {i \in 1..Len(ev) : ev[i].predicted_risk = t}

FirstOccurrence(ev, t) ==
    CHOOSE i \in Occurrences(ev, t) : \A j \in Occurrences(ev, t) : i <= j

C4_TopTypologies ==
    result.called =>
        LET ev == result.evidence
            top == result.top_typologies
        IN  /\ {top[i] : i \in 1..Len(top)}
                  = {ev[i].predicted_risk : i \in 1..Len(ev)} \ {"neutral"}
            /\ \A i, j \in 1..Len(top) : i < j =>
                  LET ni == Cardinality(Occurrences(ev, top[i]))
                      nj == Cardinality(Occurrences(ev, top[j]))
                  IN  /\ top[i] # top[j]
                      /\ \/ ni > nj
                         \/ /\ ni = nj
                            /\ FirstOccurrence(ev, top[i])
                                  < FirstOccurrence(ev, top[j])

C4_Witness ==
    /\ result.called
    /\ Len(result.evidence) = 3
    /\ result.evidence[1].predicted_risk = "sanctions"
    /\ result.evidence[2].predicted_risk = "fraud"
    /\ result.evidence[3].predicted_risk = "neutral"
    /\ result.top_typologies = <<"sanctions", "fraud">>

\* C5: normalize_name is idempotent: applied to its own result it returns
\* that result.
C5_Idempotent == norm.stage = 2 => norm.twice = norm.once

\* C6 as claimed: exactly one trailing suffix is removed from the cleaned
\* name when it ends with one, and none otherwise.
C6_ExactlyOneSuffix ==
    norm.stage >= 1 =>
        LET cleaned == CleanName(norm.name)
        IN  IF \E i \in 1..Len(suffixes) : EndsWith(cleaned, suffixes[i])
            THEN \E i \in 1..Len(suffixes) :
                    /\ EndsWith(cleaned, suffixes[i])
                    /\ norm.once = Strip(DropSuffix(cleaned, suffixes[i]))
            ELSE norm.once = Strip(cleaned)

\* C6 as amended: normalize_name passes once over the suffix list in its
\* order and removes each suffix the name ends with at the suffix's turn:
\* every list entry is removed at most once, several can be removed, and
\* normalize_name('Acme Corp') = normalize_name('acme') = 'acme'.
\* I is the set of list positions removed; the name before position i is
\* the cleaned name without the removed suffixes of earlier positions.
LengthBefore(cleaned, I, i) ==
    Len(cleaned)
        - SeqSum([j \in 1..(i - 1) |->
                     IF j \in I THEN Len(suffixes[j]) ELSE 0])

C6_OnePassOverSuffixes ==
    norm.stage >= 1 =>
        LET cleaned == CleanName(norm.name)
            n == Len(suffixes)
        IN  /\ \E I \in SUBSET (1..n) :
                  /\ \A i \in 1..n :
                        /\ LengthBefore(cleaned, I, i) >= 0
                        /\ i \in I <=>
                              EndsWith(SubSeq(cleaned, 1,
                                              LengthBefore(cleaned, I, i)),
                                       suffixes[i])
                  /\ norm.once
                        = Strip(SubSeq(cleaned, 1,
                                       LengthBefore(cleaned, I, n + 1)))
            /\ norm.name \in {Acme, <<"A", "c", "m", "e", " ", "C", "o", "r", "p">>}
                  => norm.once = Acme

C6_Witness ==
    /\ norm.stage >= 1
    /\ norm.name = <<"a", "c", "m", "e", " ", "G", "r", "o", "u", "p",
                     " ", "h", "o", "l", "d", "i", "n", "g", "s">>
    /\ norm.once = Acme

\* C7 as claimed: the confidence of an evidence item equals the maximum
\* posterior probability of its article, unchanged.
C7_ConfidenceUnchanged ==
    result.classified =>
        \A i \in 1..Len(result.evidence) :
            result.evidence[i].confidence * 10 = result.raw_articles[i].prob

\* C7 as amended: the confidence of an evidence item is the maximum
\* posterior probability of its article rounded to two decimals, also when
\* the label was overridden to neutral.
C7_ConfidenceRounded ==
    result.classified =>
        /\ Len(result.evidence) = Len(result.raw_articles)
        /\ \A i \in 1..Len(result.evidence) :
              LET diff == result.evidence[i].confidence * 10
                          - result.raw_articles[i].prob
              IN  -5 <= diff /\ diff <= 5

C7_Witness ==
    /\ result.classified
    /\ \E i, j \in 1..Len(result.evidence) :
          /\ result.raw_articles[i].prob = 549
          /\ result.raw_articles[i].pred = "sanctions"
          /\ result.evidence[i].predicted_risk = "neutral"
          /\ result.evidence[i].confidence = 55
          /\ result.raw_articles[j].prob = 556
          /\ result.evidence[j].confidence = 56

\* C8: a query that obtains no evidence is presented with the 'no adverse
\* media found' message and not with the 'no evidence meets filters'
\* message; evidence of which none passes the filters is presented with
\* the 'no evidence meets filters' message.
C8_DistinctMessages ==
    app.ran /\ app.analyze_btn /\ app.entity_query =>
        /\ result.evidence = <<>> =>
              /\ MsgNoAdverseMedia \in app.shown
              /\ MsgNoEvidenceMeetsFilters \notin app.shown
        /\ result.evidence # <<>> =>
              /\ MsgNoAdverseMedia \notin app.shown
              /\ MsgNoEvidenceMeetsFilters \in app.shown
                    <=> \A i \in 1..Len(result.evidence) :
                           \/ result.evidence[i].confidence < app.min_confidence
                           \/ /\ app.filter_typologies # {}
                              /\ result.evidence[i].predicted_risk
                                    \notin app.filter_typologies

\* C9: an engine becomes Trained once, when its construction ends, and from
\* then on its model and vectorizer stay what they are; every analyze and
\* explain call, also on a query whose retrieval fails or returns nothing,
\* leaves every engine and the persisted artifacts unchanged.
C9_TrainedOnce ==
    [][/\ \A c \in Callers :
             /\ engine[c].state = "Trained" =>
                   /\ engine'[c].state = "Trained"
                   /\ engine'[c].model = engine[c].model
                   /\ engine'[c].vectorizer = engine[c].vectorizer
             /\ engine[c].state # "Trained" /\ engine'[c].state = "Trained" =>
                   /\ engine[c].state = "Untrained"
                   /\ pc[c] \in {"load_vectorizer", "dump_vectorizer"}
                   /\ pc'[c] = "ready"
       /\ (result'.called /\ ~result.called)
             \/ (explanation'.called /\ ~explanation.called) =>
                   /\ disk' = disk
                   /\ engine' = engine
                   /\ corpus' = corpus]_vars

C9_Witness ==
    \E c \in Callers :
        /\ engine[c].state = "Trained"
        /\ engine[c].trained
        /\ disk = [model |-> Fitted(corpus, c), vectorizer |-> Fitted(corpus, c)]
        /\ result.called
        /\ web.kind = "error"

\* C10: construction loads the two artifacts and trains only if one of them
\* does not load; then it fits on the corpus and writes both artifacts, or,
\* with the corpus absent, fails with the missing-file error, builds no
\* engine and writes nothing.
C10_LoadElseTrain ==
    \A c \in Callers :
        /\ pc[c] = "ready" =>
              /\ engine[c].state = "Trained"
              /\ engine[c].model.state = "ok"
              /\ engine[c].vectorizer.state = "ok"
              /\ IF engine[c].loaded = {"model", "vectorizer"}
                 THEN /\ ~engine[c].trained
                      /\ engine[c].wrote = {}
                      /\ engine[c].model.run # c
                      /\ engine[c].vectorizer.run # c
                 ELSE /\ engine[c].trained
                      /\ corpus # "absent"
                      /\ engine[c].model = Fitted(corpus, c)
                      /\ engine[c].vectorizer = Fitted(corpus, c)
                      /\ engine[c].wrote = {"model", "vectorizer"}
        /\ pc[c] = "failed" =>
              /\ corpus = "absent"
              /\ engine[c].loaded # {"model", "vectorizer"}
              /\ engine[c].error = "FileNotFoundError"
              /\ engine[c].state = "Failed"
              /\ ~engine[c].trained
              /\ engine[c].wrote = {}
        /\ pc[c] \in {"dump_model", "dump_vectorizer"} => corpus # "absent"
        /\ engine[c].wrote # {} => engine[c].trained
        /\ "model" \in engine[c].wrote => disk.model.run \in Callers
        /\ "vectorizer" \in engine[c].wrote => disk.vectorizer.run \in Callers

C10_Witness ==
    \E c, d \in Callers :
        /\ pc[c] = "ready"
        /\ engine[c].loaded = {"model"}
        /\ engine[c].wrote = {"model", "vectorizer"}
        /\ disk.vectorizer = Fitted(corpus, c)
        /\ pc[d] = "ready"
        /\ engine[d].loaded = {"model", "vectorizer"}

\* C11: first-time training by several callers is serialised: at most one
\* caller is between its fit and the end of its writes at a time, and once
\* no caller is writing, a persisted pair written by the callers comes from
\* one training run.
Writing(c) == pc[c] \in {"dump_model", "dump_vectorizer"}

C11_SerialisedTraining ==
    /\ Cardinality({c \in Callers : Writing(c)}) <= 1
    /\ (/\ \A c \in Callers : ~Writing(c)
        /\ disk.model.run \in Callers
        /\ disk.vectorizer.run \in Callers)
          => disk.model.run = disk.vectorizer.run

C13_ReportAvailable ==
    (/\ app.ran /\ app.analyze_btn /\ app.entity_query
     /\ result.returns = "dict"
     /\ \A c \in Callers : engine[c].state = "Trained")
        => app.raised = "none"

\* a character that is neither a letter, nor a digit, nor white space
IsSymbol(ch) == ch \notin (UpperCase \cup LowerCase \cup Digits \cup WhiteSpace)

\* C14: normalize_name never fails, and the empty name and every name made
\* only of symbols (characters that are neither alphanumeric nor white
\* space, the underscore included) normalizes to the empty string.
C14_SymbolsToEmpty ==
    (/\ norm.stage >= 1
     /\ \A i \in 1..Len(norm.name) : IsSymbol(norm.name[i]))
        => norm.once = <<>>

\* C15: for every result analyze_entity returns, risk_score is
\* calculate_risk_score of the returned evidence list; it is 0 exactly when
\* the evidence has no non-neutral item and otherwise lies between 51 and
\* 96: never in 1..50 or 97..100, every non-neutral item carrying a
\* confidence of at least 0.55.
C15_ScoreRange ==
    (result.called /\ result.returns = "dict") =>
        LET ev == result.evidence
            I == NonNeutral(ev)
            n == Cardinality(I)
        IN  /\ result.risk_score = calculate_risk_score(ev)
            /\ result.risk_score = 0 <=> I = {}
            /\ result.risk_score = 0 \/ result.risk_score \in 51..96
            /\ \A i \in I : ev[i].confidence >= 55
            /\ I # {} =>
                  result.risk_score * n * Micro
                     <= SumConfidence(ev, I) * 500000 + n * 46 * Micro

\* `limit` articles, overridden ones among them, and the lowest score
C15_Witness ==
    /\ result.called /\ result.returns = "dict"
    /\ Len(result.evidence) = Limit
    /\ result.raw_articles[1] = [pred |-> "fraud", prob |-> 143]
    /\ result.evidence[1].predicted_risk = "neutral"
    /\ Cardinality(NonNeutral(result.evidence)) = 1
    /\ result.risk_score = 51

====
